---- MODULE Spec2Model ----
(***************************************************************************)
(* Model of scripts/generate_map.py: the photo-map generator.              *)
(*                                                                         *)
(* Two specifications share this module.                                   *)
(*   SpecExif  applies extract_exif to every combination of a bounded set  *)
(*             of tag dictionaries, declared MIME types and byte formats.  *)
(*   Spec      runs the whole script (load_cache, collection loop, local   *)
(*             flush, marker rendering loop, upsert_file of the page and   *)
(*             of the cache) over bounded file listings, several runs in   *)
(*             a row sharing the local cache file and the repository.      *)
(***************************************************************************)
EXTENDS Integers, Sequences, FiniteSets, TLC

(***************************************************************************)
(* Python values.  latitude / longitude are either the empty string ''     *)
(* (line 66) or a float; a float is kept as an exact fraction n/d in       *)
(* lowest terms, d > 0.  datetime is a string, '' when absent.             *)
(***************************************************************************)
EmptyStr == [kind |-> "str", n |-> 0, d |-> 1]

RECURSIVE Gcd(_, _)
Gcd(a, b) == IF b = 0 THEN a ELSE Gcd(b, a % b)

Abs(x) == IF x < 0 THEN -x ELSE x

Float(n, d) ==
    LET g == Gcd(Abs(n), d)
    IN  [kind |-> "float", n |-> n \div g, d |-> d \div g]

\* Python truthiness of a latitude / longitude value (line 178):
\* '' is falsy, 0.0 and -0.0 are falsy, every other float is truthy.
Truthy(v) == v.kind = "float" /\ v.n # 0

\* "present" in the sense of the data model: a numeric value, zero included.
Present(v) == v.kind = "float"

(***************************************************************************)
(* Tag dictionaries as exifread.process_file returns them.  A tag that is  *)
(* not in the dictionary has present = FALSE and the default value.        *)
(* A DMS tag's .values is a list of ratios (num, den); a reference tag's   *)
(* .values is a string.                                                    *)
(***************************************************************************)
Ratio(n, d) == [num |-> n, den |-> d]

NoDms == [present |-> FALSE, values |-> << >>]
NoStr == [present |-> FALSE, values |-> ""]
Dms(v) == [present |-> TRUE, values |-> v]
Str(s) == [present |-> TRUE, values |-> s]

EmptyTags == [lat |-> NoDms, latRef |-> NoStr, lon |-> NoDms, lonRef |-> NoStr, dto |-> NoStr]

\* Degrees, minutes and seconds the bounded inputs are built from: zero,
\* ordinary values, a fraction with denominator 2 and zero denominators.
DegRatios == {Ratio(0, 1), Ratio(35, 1), Ratio(35, 0)}
MinRatios == {Ratio(0, 1), Ratio(61, 2)}
SecRatios == {Ratio(0, 1), Ratio(1, 0)}

DmsValues ==
    {<<dg, mi, se>> : dg \in DegRatios, mi \in MinRatios, se \in SecRatios}
        \cup {<<Ratio(35, 1), Ratio(0, 1)>>}

RefValues == {"N", "S", "E", "W", "X", ""}

DmsTags == {NoDms} \cup {Dms(v) : v \in DmsValues}
RefTags == {NoStr} \cup {Str(s) : s \in RefValues}
DtoTags == {NoStr, Str("2024:01:02 03:04:05")}

TagDicts ==
    [lat : DmsTags, latRef : RefTags, lon : DmsTags, lonRef : RefTags, dto : DtoTags]

(***************************************************************************)
(* dms_to_dd (lines 79-86).  Raises IndexError when the list has fewer     *)
(* than three ratios and ZeroDivisionError on a zero denominator; the      *)
(* result carries ok = FALSE then.                                         *)
(***************************************************************************)
Raised == [ok |-> FALSE, val |-> EmptyStr]
Returned(v) == [ok |-> TRUE, val |-> v]

\* a sign test that knows north only
Negates_NorthOnly(refValues) == refValues # "N"

\* line 84: the sign test, one list ['N', 'E'] for both axes
Negates(refValues) == refValues \notin {"N", "E"}

dms_to_dd(dms, ref) ==
    IF Len(dms.values) < 3 THEN Raised
    ELSE LET v1 == dms.values[1]
             v2 == dms.values[2]
             v3 == dms.values[3]
         IN  IF v1.den = 0 \/ v2.den = 0 \/ v3.den = 0 THEN Raised
             ELSE LET n == v1.num * 3600 * v2.den * v3.den
                             + v2.num * 60 * v1.den * v3.den
                             + v3.num * v1.den * v2.den
                      d == 3600 * v1.den * v2.den * v3.den
                  IN  Returned(Float(IF Negates(ref.values) THEN -n ELSE n, d))

(***************************************************************************)
(* Lines 78-90 of extract_exif, run on a tag dictionary, together with the *)
(* except clause of lines 91-92: an exception leaves lat, lon and dt at    *)
(* what they were assigned before it.                                      *)
(***************************************************************************)
GeoTag(la, lo, dt) == [lat |-> la, lon |-> lo, dt |-> dt]

AllAbsent == GeoTag(EmptyStr, EmptyStr, "")

DateOf(tags, la, lo) ==
    GeoTag(la, lo, IF tags.dto.present THEN tags.dto.values ELSE "")

\* a parser that takes a missing reference tag for north / east
ParseTags_AssumeNorthEast(tags) ==
    IF tags.lat.present /\ tags.lon.present
    THEN LET la == dms_to_dd(tags.lat, IF tags.latRef.present THEN tags.latRef ELSE Str("N"))
             lo == dms_to_dd(tags.lon, IF tags.lonRef.present THEN tags.lonRef ELSE Str("E"))
         IN  IF ~la.ok THEN AllAbsent
             ELSE IF ~lo.ok THEN GeoTag(la.val, EmptyStr, "")
             ELSE DateOf(tags, la.val, lo.val)
    ELSE DateOf(tags, EmptyStr, EmptyStr)

ParseTags(tags) ==
    IF tags.lat.present /\ tags.lon.present
    THEN \* line 87: tags['GPS GPSLatitudeRef'] raises KeyError when missing
         IF ~tags.latRef.present THEN AllAbsent
         ELSE LET la == dms_to_dd(tags.lat, tags.latRef)
              IN  IF ~la.ok THEN AllAbsent
                  \* line 88: lat is already assigned when this line raises
                  ELSE IF ~tags.lonRef.present THEN GeoTag(la.val, EmptyStr, "")
                  ELSE LET lo == dms_to_dd(tags.lon, tags.lonRef)
                       IN  IF ~lo.ok THEN GeoTag(la.val, EmptyStr, "")
                           ELSE DateOf(tags, la.val, lo.val)
    ELSE DateOf(tags, EmptyStr, EmptyStr)

(***************************************************************************)
(* File bytes.  fmt is what the bytes really are, tags the tag dictionary  *)
(* embedded in them, size the pixel size of the picture.                   *)
(***************************************************************************)
Bytes(fmt, tags, size) == [fmt |-> fmt, tags |-> tags, size |-> size]

\* 'heic' in mime_type.lower()  (lines 52, 68)
IsHeicMime(mime) == mime \in {"image/heic", "IMAGE/HEIC", "image/heic-sequence"}

\* pyheif.read_heif succeeds on HEIC bytes only
ReadHeifOk(bytes) == bytes.fmt = "heic"

\* exifread.process_file: reads the embedded tags of JPEG and HEIC bytes,
\* finds none in bytes that are no image
ProcessFile(bytes) == IF bytes.fmt \in {"jpeg", "heic"} THEN bytes.tags ELSE EmptyTags

\* lines 69-74: the pixels are rebuilt with Image.frombytes and saved as a
\* JPEG without any metadata, so the re-encoded buffer carries no tags
ReencodedJpeg(bytes) == Bytes("jpeg", EmptyTags, bytes.size)

extract_exif(bytes, mime) ==
    IF IsHeicMime(mime)
    THEN IF ReadHeifOk(bytes) THEN ParseTags(ProcessFile(ReencodedJpeg(bytes))) ELSE AllAbsent
    ELSE ParseTags(ProcessFile(bytes))

VARIABLES xBytes, xMime, xGeo, xUri, xPc

xvars == <<xBytes, xMime, xGeo, xUri, xPc>>

ExifInputs ==
    {<<"jpeg", "image/jpeg">>, <<"heic", "image/heif">>,
     <<"heic", "image/heic">>, <<"corrupt", "image/jpeg">>}

(***************************************************************************)
(* The files of the Drive folder.  Each identifier names one file with a   *)
(* fixed name, declared MIME type and bytes.                               *)
(***************************************************************************)
ValidGps(latDeg, latRef, lonDeg, lonRef) ==
    [lat    |-> Dms(<<Ratio(latDeg, 1), Ratio(30, 1), Ratio(0, 1)>>),
     latRef |-> Str(latRef),
     lon    |-> Dms(<<Ratio(lonDeg, 1), Ratio(0, 1), Ratio(0, 1)>>),
     lonRef |-> Str(lonRef),
     dto    |-> Str("2024:01:02 03:04:05")]

EquatorGps == [ValidGps(0, "N", 139, "E") EXCEPT !.lat = Dms(<<Ratio(0, 1), Ratio(0, 1), Ratio(0, 1)>>)]

DriveFile(name, mime, bytes) == [name |-> name, mimeType |-> mime, bytes |-> bytes]

Drive ==
    [heif    |-> DriveFile("IMG_1.HEIC", "image/heif", Bytes("heic", ValidGps(35, "N", 139, "E"), <<4, 3>>)),
     jpeg    |-> DriveFile("IMG_3.JPG", "image/jpeg", Bytes("jpeg", ValidGps(35, "N", 139, "E"), <<4, 3>>)),
     nogps   |-> DriveFile("IMG_4.HEIC", "image/heif", Bytes("heic", [EmptyTags EXCEPT !.dto = Str("2024:01:02 03:04:05")], <<4, 3>>)),
     corrupt |-> DriveFile("IMG_5.JPG", "image/jpeg", Bytes("corrupt", EmptyTags, <<0, 0>>)),
     half    |-> DriveFile("IMG_6.HEIC", "image/heif", Bytes("heic", [ValidGps(35, "N", 139, "E") EXCEPT !.lonRef = NoStr], <<4, 3>>)),
     equator |-> DriveFile("IMG_7.HEIC", "image/heif", Bytes("heic", EquatorGps, <<4, 3>>)),
     thin    |-> DriveFile("IMG_8.HEIC", "image/heif", Bytes("heic", ValidGps(35, "N", 139, "E"), <<400, 1>>))]

FileIds == DOMAIN Drive

\* one entry of the listing (line 36: fields id, name, mimeType)
Listed(id) == [id |-> id, name |-> Drive[id].name, mimeType |-> Drive[id].mimeType]

MaxListing == 2
MaxRuns == 2

RECURSIVE SeqsUpTo(_, _)
SeqsUpTo(S, n) ==
    IF n = 0 THEN {<< >>}
    ELSE LET shorter == SeqsUpTo(S, n - 1)
         IN  shorter \cup {Append(s, x) : s \in {t \in shorter : Len(t) = n - 1}, x \in S}

\* list_image_files (lines 34-37): any listing of the folder, the same
\* identifier possibly listed twice
Listings == SeqsUpTo({Listed(id) : id \in FileIds}, MaxListing)

\* every order of the same listing
Reorderings(s) ==
    {[k \in 1..Len(s) |-> s[p[k]]] :
        p \in {q \in [1..Len(s) -> 1..Len(s)] : \A a, b \in 1..Len(s) : q[a] = q[b] => a = b}}

\* s without its k-th entry
Without(s, k) == SubSeq(s, 1, k - 1) \o SubSeq(s, k + 1, Len(s))

\* what the folder can be when the script runs the next time: the same files
\* in any order, one file removed, or one file added
FolderChanges(s) ==
    Reorderings(s)
        \cup {Without(s, k) : k \in 1..Len(s)}
        \cup {Append(s, Listed(id)) : id \in {x \in FileIds : Len(s) < MaxListing}}

(***************************************************************************)
(* Rows and the cache map (identifier -> row).                             *)
(***************************************************************************)
\* lines 146-153
Row(f, geo) ==
    [filename  |-> f.name,
     latitude  |-> geo.lat,
     longitude |-> geo.lon,
     datetime  |-> geo.dt,
     file_id   |-> f.id,
     mime_type |-> f.mimeType]

EmptyMap == [id \in {} |-> Row(Listed("heif"), AllAbsent)]

\* rows that put the newest record first
RowsAppend_Front(list, row) == <<row>> \o list

\* lines 140, 154: rows.append(...)
RowsAppend(list, row) == Append(list, row)

\* a lookup that never finds anything
InCache_Never(id, cache) == FALSE

\* line 139: f['id'] in cached_files
InCache(id, cache) == id \in DOMAIN cache

\* a put that writes the new record over every record of the map
CachePut_Clobber(cache, id, row) == [x \in DOMAIN cache \cup {id} |-> row]

\* a put that starts a new map with the one record
CachePut_Replace(cache, id, row) == [x \in {id} |-> row]

\* line 155: cached_files[f['id']] = row
CachePut(cache, id, row) ==
    [x \in DOMAIN cache \cup {id} |-> IF x = id THEN row ELSE cache[x]]

\* json.dump / json.dumps (lines 159, 227): '' becomes a JSON string, a
\* float a JSON number written with repr, which reads back to the same float
JsonValue(v) ==
    IF v.kind = "str" THEN [json |-> "string", n |-> 0, d |-> 1]
    ELSE [json |-> "number", n |-> v.n, d |-> v.d]

PyValue(j) ==
    IF j.json = "string" THEN EmptyStr ELSE Float(j.n, j.d)

json_dump(cache) ==
    [id \in DOMAIN cache |->
        [cache[id] EXCEPT !.latitude = JsonValue(@), !.longitude = JsonValue(@)]]

\* json.load / json.loads (lines 126, 130)
json_load(text) ==
    [id \in DOMAIN text |->
        [text[id] EXCEPT !.latitude = PyValue(@), !.longitude = PyValue(@)]]

NoFile == [exists |-> FALSE, text |-> json_dump(EmptyMap)]
FileOf(text) == [exists |-> TRUE, text |-> text]

(***************************************************************************)
(* Icon and popup generation (lines 96-120).                               *)
(***************************************************************************)
\* pil_open_safe (lines 50-62): None (ok = FALSE) when the decoder raises
pil_open_safe(bytes, mime) ==
    IF IsHeicMime(mime)
    THEN [ok |-> ReadHeifOk(bytes), size |-> bytes.size]
    ELSE [ok |-> bytes.fmt = "jpeg", size |-> bytes.size]

IconSize == 50
PopupWidth == 200

NoUri == [raised |-> FALSE, some |-> FALSE, size |-> <<0, 0>>]
Uri(w, h) == [raised |-> FALSE, some |-> TRUE, size |-> <<w, h>>]
ResizeError == [raised |-> TRUE, some |-> FALSE, size |-> <<0, 0>>]

\* Image.resize raises ValueError unless both sides are > 0
Resize(w, h) == IF w > 0 /\ h > 0 THEN Uri(w, h) ELSE ResizeError

\* lines 96-108; always opens through the HEIC path (line 97)
heic_to_base64_circle(bytes, size) ==
    LET img == pil_open_safe(bytes, "image/heic")
    IN  IF ~img.ok THEN NoUri ELSE Resize(size, size)

MaxSide == 210

\* The sizes (w, h), sides up to MaxSide + 10, at which h * (200 / w) in
\* double arithmetic falls just below the integer 200 * h / w, so that int()
\* gives one less than the exact quotient; at every other size int() gives
\* the floor of the exact quotient.
RoundsBelow ==
    {<<29, 145>>, <<31, 155>>, <<58, 145>>, <<62, 155>>, <<97, 97>>,
     <<97, 194>>, <<116, 145>>, <<124, 155>>, <<161, 161>>, <<167, 167>>,
     <<193, 193>>, <<194, 97>>, <<194, 194>>, <<195, 117>>, <<195, 195>>,
     <<199, 199>>}

\* line 116: int(h * (width / w))
NewHeight(w, h, width) ==
    LET exact == (h * width) \div w
    IN  IF width = 200 /\ <<w, h>> \in RoundsBelow THEN exact - 1 ELSE exact

\* lines 111-120
heic_to_base64_popup(bytes, width) ==
    LET img == pil_open_safe(bytes, "image/heic")
    IN  IF ~img.ok THEN NoUri
        ELSE Resize(width, NewHeight(img.size[1], img.size[2], width))

\* a gate that lets every row through
MarkerGate_Always(row) == TRUE

\* line 178: if row['latitude'] and row['longitude']
MarkerGate(row) == Truthy(row.latitude) /\ Truthy(row.longitude)

\* line 182: if icon_data_uri and popup_data_uri
ArtifactGate(icon, popup) == icon.some /\ popup.some

Marker(row, icon, popup) ==
    [file_id |-> row.file_id, lat |-> row.latitude, lon |-> row.longitude,
     icon |-> icon.size, popup |-> popup.size]

\* a loop that is left after its first pass at the latest
LoopDone_Early(k, list) == k > 1 \/ k > Len(list)

\* the for loop of line 138 (and of line 177) is exhausted
LoopDone(k, list) == k > Len(list)

VARIABLES
    folder,       \* the Drive folder: its files in the order the API lists them
    run,          \* number of the current run of the script
    pc,           \* where the run is: load, list, collect, render, publish_html, publish_cache, done, aborted
    abortCause,   \* the uncaught exception that ended an aborted run
    localFile,    \* CACHE_FILE on disk
    repoCache,    \* CACHE_FILE in the repository
    repoHtml,     \* HTML_NAME in the repository: the published markers
    listing,      \* list_image_files(FOLDER_ID) of this run
    cached_files, \* the dict of line 134
    loaded,       \* what load_cache returned in this run
    rows,         \* the list of line 137
    i,            \* position of the collection loop in listing
    j,            \* position of the rendering loop in rows
    markers,      \* markers appended to html_lines
    log,          \* the way load_cache returned, then the calls of the collection loop, in order
    gets,         \* per identifier: calls of get_file_bytes in this run, [collect, render]
    writes,       \* cache writes of this run, in order: <<store, position of the loop, map>>
    prev          \* the previous run: how it ended, its listing, rows, final and loaded cache

pvars ==
    <<folder, run, pc, abortCause, localFile, repoCache, repoHtml, listing, cached_files,
      loaded, rows, i, j, markers, log, gets, writes, prev>>

NoGets == [id \in FileIds |-> [collect |-> 0, render |-> 0]]

NoPrev ==
    [ended |-> "none", listing |-> << >>, rows |-> << >>, cache |-> EmptyMap, loaded |-> EmptyMap]

RunStart ==
    /\ pc = "load"
    /\ abortCause = "none"
    /\ listing = << >>
    /\ cached_files = EmptyMap
    /\ loaded = EmptyMap
    /\ rows = << >>
    /\ i = 0
    /\ j = 0
    /\ markers = << >>
    /\ log = << >>
    /\ gets = NoGets
    /\ writes = << >>

FirstRun ==
    /\ run = 1
    /\ RunStart
    /\ localFile = NoFile
    /\ repoCache = NoFile
    /\ repoHtml = [exists |-> FALSE, markers |-> << >>]
    /\ prev = NoPrev

Abort(cause) ==
    /\ pc' = "aborted"
    /\ abortCause' = cause

(***************************************************************************)
(* load_cache (lines 123-134)                                              *)
(***************************************************************************)
Loaded(map, path) ==
    /\ pc = "load"
    /\ cached_files' = map
    /\ loaded' = map
    /\ log' = << <<"load", path>> >>
    /\ pc' = "list"
    /\ UNCHANGED <<xvars, folder, run, abortCause, localFile, repoCache, repoHtml, listing, rows, i, j,
                   markers, gets, writes, prev>>

\* lines 124-126
LoadCacheLocal ==
    /\ localFile.exists
    /\ Loaded(json_load(localFile.text), "local")

\* lines 129-130
LoadCacheRepo ==
    /\ ~localFile.exists
    /\ repoCache.exists
    /\ Loaded(json_load(repoCache.text), "repo")

\* a load_cache without the except clause
LoadCacheEmpty_Raises ==
    /\ ~localFile.exists
    /\ pc = "load"
    /\ log' = << <<"load", "empty">> >>
    /\ Abort("load")
    /\ UNCHANGED <<xvars, folder, run, localFile, repoCache, repoHtml, listing, cached_files,
                   loaded, rows, i, j, markers, gets, writes, prev>>

\* lines 131-132: no such file in the repository, or the request failed
LoadCacheEmpty ==
    /\ ~localFile.exists
    /\ Loaded(EmptyMap, "empty")

(***************************************************************************)
(* Collection loop (lines 137-155)                                         *)
(***************************************************************************)
ListFiles ==
    /\ pc = "list"
    /\ listing' = folder
    /\ i' = 1
    /\ pc' = "collect"
    /\ UNCHANGED <<xvars, folder, run, abortCause, localFile, repoCache, repoHtml, cached_files, loaded,
                   rows, j, markers, log, gets, writes, prev>>

Counted(phase, id) == [gets EXCEPT ![id][phase] = @ + 1]

\* lines 139-141
CollectCached ==
    /\ pc = "collect" /\ ~LoopDone(i, listing)
    /\ LET f == listing[i] IN
          /\ InCache(f.id, cached_files)
          /\ rows' = RowsAppend(rows, cached_files[f.id])
          /\ log' = Append(log, <<"has", f.id>>)
    /\ i' = i + 1
    /\ UNCHANGED <<xvars, folder, run, pc, abortCause, localFile, repoCache, repoHtml, listing,
                   cached_files, loaded, j, markers, gets, writes, prev>>

\* lines 143-155
CollectProcess ==
    /\ pc = "collect" /\ ~LoopDone(i, listing)
    /\ LET f == listing[i]
           file_bytes == Drive[f.id].bytes
           row == Row(f, extract_exif(file_bytes, f.mimeType))
       IN /\ ~InCache(f.id, cached_files)
          /\ rows' = RowsAppend(rows, row)
          /\ cached_files' = CachePut(cached_files, f.id, row)
          /\ log' = log \o << <<"has", f.id>>, <<"get", f.id>>, <<"exif", f.id>>, <<"put", f.id>> >>
          /\ gets' = Counted("collect", f.id)
    /\ i' = i + 1
    /\ UNCHANGED <<xvars, folder, run, pc, abortCause, localFile, repoCache, repoHtml, listing, loaded,
                   j, markers, writes, prev>>

\* line 144 raises: nothing catches it
CollectDownloadError ==
    /\ pc = "collect" /\ ~LoopDone(i, listing)
    /\ LET f == listing[i] IN
          /\ ~InCache(f.id, cached_files)
          /\ log' = log \o << <<"has", f.id>>, <<"get", f.id>> >>
          /\ gets' = Counted("collect", f.id)
    /\ Abort("download")
    /\ UNCHANGED <<xvars, folder, run, localFile, repoCache, repoHtml, listing, cached_files, loaded,
                   rows, i, j, markers, writes, prev>>

\* lines 158-159
FlushLocal ==
    /\ pc = "collect" /\ LoopDone(i, listing)
    /\ localFile' = FileOf(json_dump(cached_files))
    /\ writes' = Append(writes, <<"local", i, cached_files>>)
    /\ j' = 1
    /\ pc' = "render"
    /\ UNCHANGED <<xvars, folder, run, abortCause, repoCache, repoHtml, listing, cached_files, loaded,
                   rows, i, markers, log, gets, prev>>

(***************************************************************************)
(* Marker rendering loop (lines 177-193)                                   *)
(***************************************************************************)
\* line 178 false
RenderSkip ==
    /\ pc = "render" /\ ~LoopDone(j, rows)
    /\ ~MarkerGate(rows[j])
    /\ j' = j + 1
    /\ UNCHANGED <<xvars, folder, run, pc, abortCause, localFile, repoCache, repoHtml, listing,
                   cached_files, loaded, rows, i, markers, log, gets, writes, prev>>

\* line 179 raises: nothing catches it
RenderDownloadError ==
    /\ pc = "render" /\ ~LoopDone(j, rows)
    /\ MarkerGate(rows[j])
    /\ gets' = Counted("render", rows[j].file_id)
    /\ Abort("download")
    /\ UNCHANGED <<xvars, folder, run, localFile, repoCache, repoHtml, listing, cached_files, loaded,
                   rows, i, j, markers, log, writes, prev>>

\* lines 179-193, the download succeeding
RenderRow ==
    /\ pc = "render" /\ ~LoopDone(j, rows)
    /\ MarkerGate(rows[j])
    /\ gets' = Counted("render", rows[j].file_id)
    /\ LET file_bytes == Drive[rows[j].file_id].bytes
           icon == heic_to_base64_circle(file_bytes, IconSize)
           popup == heic_to_base64_popup(file_bytes, PopupWidth)
       IN \/ /\ icon.raised \/ popup.raised
             /\ Abort("artifact")
             /\ UNCHANGED <<j, markers>>
          \/ /\ ~icon.raised /\ ~popup.raised
             /\ ArtifactGate(icon, popup)
             /\ markers' = Append(markers, Marker(rows[j], icon, popup))
             /\ j' = j + 1
             /\ UNCHANGED <<pc, abortCause>>
          \/ /\ ~icon.raised /\ ~popup.raised
             /\ ~ArtifactGate(icon, popup)
             /\ j' = j + 1
             /\ UNCHANGED <<pc, abortCause, markers>>
    /\ UNCHANGED <<xvars, folder, run, localFile, repoCache, repoHtml, listing, cached_files, loaded,
                   rows, i, log, writes, prev>>

(***************************************************************************)
(* upsert_file (lines 217-227)                                             *)
(***************************************************************************)
PublishHtml ==
    /\ pc = "render" /\ LoopDone(j, rows)
    /\ repoHtml' = [exists |-> TRUE, markers |-> markers]
    /\ pc' = "publish_cache"
    /\ UNCHANGED <<xvars, folder, run, abortCause, localFile, repoCache, listing, cached_files, loaded,
                   rows, i, j, markers, log, gets, writes, prev>>

PublishCache ==
    /\ pc = "publish_cache"
    /\ repoCache' = FileOf(json_dump(cached_files))
    /\ writes' = Append(writes, <<"repo", i, cached_files>>)
    /\ pc' = "done"
    /\ UNCHANGED <<xvars, folder, run, abortCause, localFile, repoHtml, listing, cached_files, loaded,
                   rows, i, j, markers, log, gets, prev>>

\* line 223 raises: update_file and create_file both failed
UpsertError ==
    /\ \/ pc = "render" /\ LoopDone(j, rows)
       \/ pc = "publish_cache"
    /\ Abort("upsert")
    /\ UNCHANGED <<xvars, folder, run, localFile, repoCache, repoHtml, listing, cached_files, loaded,
                   rows, i, j, markers, log, gets, writes, prev>>

(***************************************************************************)
(* The script is started again, in the same workspace or in a fresh        *)
(* checkout without the local cache file (line 124).                       *)
(***************************************************************************)
NextRun(keepLocal) ==
    /\ pc \in {"done", "aborted"}
    /\ run < MaxRuns
    /\ run' = run + 1
    /\ prev' = [ended |-> pc, listing |-> listing, rows |-> rows, cache |-> cached_files,
                 loaded |-> loaded]
    /\ localFile' = IF keepLocal THEN localFile ELSE NoFile
    /\ pc' = "load"
    /\ abortCause' = "none"
    /\ listing' = << >>
    /\ cached_files' = EmptyMap
    /\ loaded' = EmptyMap
    /\ rows' = << >>
    /\ i' = 0
    /\ j' = 0
    /\ markers' = << >>
    /\ log' = << >>
    /\ gets' = NoGets
    /\ writes' = << >>
    /\ folder' \in FolderChanges(folder)
    /\ UNCHANGED <<xvars, repoCache, repoHtml>>

RunAgain == NextRun(TRUE)

RunAgainFresh == NextRun(FALSE)

Next ==
    \/ LoadCacheLocal \/ LoadCacheRepo \/ LoadCacheEmpty
    \/ ListFiles
    \/ CollectCached \/ CollectProcess \/ CollectDownloadError
    \/ FlushLocal
    \/ RenderSkip \/ RenderDownloadError \/ RenderRow
    \/ PublishHtml \/ PublishCache \/ UpsertError
    \/ RunAgain \/ RunAgainFresh

vars == <<xvars, pvars>>

\* the whole script
Init ==
    /\ folder \in Listings
    /\ FirstRun
    /\ xBytes = Bytes("jpeg", EmptyTags, <<4, 3>>)
    /\ xMime = "image/jpeg"
    /\ xGeo = AllAbsent
    /\ xUri = NoUri
    /\ xPc = "idle"

Spec == Init /\ [][Next]_vars

\* extract_exif alone, on every bounded input
InitExif ==
    /\ \E t \in TagDicts, inp \in ExifInputs :
          /\ xBytes = Bytes(inp[1], t, <<4, 3>>)
          /\ xMime = inp[2]
    /\ xGeo = AllAbsent
    /\ xUri = NoUri
    /\ xPc = "call"
    /\ folder = << >>
    /\ FirstRun

CallExtractExif ==
    /\ xPc = "call"
    /\ xGeo' = extract_exif(xBytes, xMime)
    /\ xPc' = "returned"
    /\ UNCHANGED <<xBytes, xMime, xUri, pvars>>

NextExif == CallExtractExif

SpecExif == InitExif /\ [][NextExif]_vars

\* heic_to_base64_popup alone, on a HEIC picture of every bounded size
InitPopup ==
    /\ \E w \in 1..MaxSide, h \in 1..MaxSide : xBytes = Bytes("heic", EmptyTags, <<w, h>>)
    /\ xMime = "image/heif"
    /\ xGeo = AllAbsent
    /\ xUri = NoUri
    /\ xPc = "call_popup"
    /\ folder = << >>
    /\ FirstRun

CallPopup ==
    /\ xPc = "call_popup"
    /\ xUri' = heic_to_base64_popup(xBytes, PopupWidth)
    /\ xPc' = "popup_returned"
    /\ UNCHANGED <<xBytes, xMime, xGeo, pvars>>

NextPopup == CallPopup

SpecPopup == InitPopup /\ [][NextPopup]_vars

(***************************************************************************)
(* Properties                                                              *)
(***************************************************************************)
Ids(list) == {list[k].id : k \in 1..Len(list)}

Downloads(id) == gets[id].collect + gets[id].render

NoCoord(row) == ~Present(row.latitude) /\ ~Present(row.longitude)

\* the tag dictionary extract_exif gets to see for these bytes and MIME type
TagsSeen(bytes, mime) ==
    IF IsHeicMime(mime) THEN EmptyTags ELSE ProcessFile(bytes)

BadDms(dms) ==
    \/ Len(dms.values) < 3
    \/ \E k \in 1..Len(dms.values) : dms.values[k].den = 0

\* a step of the tag parsing fails: the decoder or reader raises, a reference
\* tag is missing, a DMS list is malformed or has a zero denominator
ParsingFails(bytes, mime) ==
    \/ IsHeicMime(mime) /\ ~ReadHeifOk(bytes)
    \/ LET t == TagsSeen(bytes, mime)
       IN  /\ t.lat.present /\ t.lon.present
           /\ \/ ~t.latRef.present \/ ~t.lonRef.present
              \/ BadDms(t.lat) \/ BadDms(t.lon)

\* C1: a run that starts from the cache a completed run left, on the same
\* listing, calls get_file_bytes not once (collection and rendering loop
\* alike) and ends with the same rows as that run.
C1_SecondRunIdempotent ==
    (/\ prev.ended = "done"
     /\ pc \notin {"load", "list"}
     /\ listing = prev.listing
     /\ loaded = prev.cache)
        => /\ \A id \in FileIds : Downloads(id) = 0
           /\ pc = "done" => rows = prev.rows

\* C2: in the collection loop every download of a file comes right after the
\* membership test of its identifier, happens only while the identifier is
\* not in the cache, and so at most once per identifier and run; metadata
\* is extracted only after such a download.
C2_CacheGateBeforeDownload ==
    \A k \in 1..Len(log) :
        LET id == log[k][2] IN
        /\ log[k][1] = "get" =>
              /\ k > 1 /\ log[k - 1] = <<"has", id>>
              /\ id \notin DOMAIN loaded
              /\ \A m \in 1..(k - 1) : log[m] \notin {<<"get", id>>, <<"put", id>>}
        /\ log[k][1] = "exif" => k > 1 /\ log[k - 1] = <<"get", id>>

\* the same identifier listed twice, both entries visited, one download
C2_Witness ==
    /\ Len(listing) >= 2
    /\ listing[1].id = listing[2].id
    /\ i > 2
    /\ gets[listing[1].id].collect = 1
    /\ Len(rows) = 2

\* C3: a failure on one file (download error in either loop, resize or
\* encode error) never ends the run: a run is aborted by nothing but a
\* failure to write to the repository.
C3_PerFileFailureIsolated ==
    pc = "aborted" => abortCause \notin {"download", "artifact"}

\* C4: extract_exif returns latitude and longitude both present or both
\* absent.
C4_PairInvariant ==
    xPc = "returned" => (Present(xGeo.lat) <=> Present(xGeo.lon))

\* C5: after the flush the cache file holds no entry for a listed file whose
\* bytes cannot be decoded.
C5_UndecodableNotCached ==
    localFile.exists =>
        \A id \in DOMAIN localFile.text : Drive[id].bytes.fmt # "corrupt"

Negated(v) == Float(-v.n, v.d)

\* the unsigned decimal degrees of a DMS tag
Magnitude(dms) == dms_to_dd(dms, Str("N")).val

SignedBy(dms, negate) == IF negate THEN Negated(Magnitude(dms)) ELSE Magnitude(dms)

\* C6 as stated: a returned latitude is negated exactly when its reference
\* is not "N", a returned longitude exactly when its reference is not "E".
C6_SignPerAxis ==
    xPc = "returned" =>
        /\ Present(xGeo.lat) =>
              xGeo.lat = SignedBy(xBytes.tags.lat, xBytes.tags.latRef.values # "N")
        /\ Present(xGeo.lon) =>
              xGeo.lon = SignedBy(xBytes.tags.lon, xBytes.tags.lonRef.values # "E")

\* C6 amended: a returned latitude or longitude is negated exactly when its
\* reference is neither "N" nor "E", whichever axis it belongs to.
C6_SignSharedList ==
    xPc = "returned" =>
        /\ Present(xGeo.lat) =>
              xGeo.lat = SignedBy(xBytes.tags.lat, xBytes.tags.latRef.values \notin {"N", "E"})
        /\ Present(xGeo.lon) =>
              xGeo.lon = SignedBy(xBytes.tags.lon, xBytes.tags.lonRef.values \notin {"N", "E"})

\* latitude (35, 61/2, 0) with reference "E" comes back positive, longitude
\* (35, 0, 0) with reference "X" negative
C6_Witness ==
    /\ xPc = "returned"
    /\ xBytes.tags.latRef.values = "E"
    /\ xBytes.tags.lonRef.values = "X"
    /\ xGeo.lat = Float(4261, 120)
    /\ xGeo.lon = Float(-35, 1)

\* C7: whenever a step of the tag parsing fails, extract_exif returns
\* latitude, longitude and timestamp all absent.
C7_FailureAllAbsent ==
    (xPc = "returned" /\ ParsingFails(xBytes, xMime)) => xGeo = AllAbsent

\* C8: a tag set with GPSLatitude but without GPSLatitudeRef gives latitude
\* and longitude both absent, whatever the longitude tags are.
C8_MissingLatRefAbsent ==
    (/\ xPc = "returned"
     /\ xBytes.tags.lat.present
     /\ ~xBytes.tags.latRef.present)
        => ~Present(xGeo.lat) /\ ~Present(xGeo.lon)

\* the reader sees a well-formed latitude without its reference next to a
\* complete longitude
C8_Witness ==
    /\ xPc = "returned"
    /\ ~IsHeicMime(xMime) /\ xBytes.fmt = "jpeg"
    /\ xBytes.tags.lat.present /\ ~BadDms(xBytes.tags.lat)
    /\ ~xBytes.tags.latRef.present
    /\ xBytes.tags.lon.present /\ ~BadDms(xBytes.tags.lon)
    /\ xBytes.tags.lonRef.present
    /\ xGeo.lat = EmptyStr /\ xGeo.lon = EmptyStr

Processed == {id \in FileIds : \E k \in 1..Len(log) : log[k] = <<"put", id>>}

\* C9: every write of the cache, to the local file or to the repository,
\* happens with the collection loop past the last entry of the listing, and
\* writes a map holding every key of the loaded cache and the identifier of
\* every file processed in this run.
C9_FlushAfterAllFiles ==
    \A k \in 1..Len(writes) :
        /\ writes[k][2] = Len(listing) + 1
        /\ DOMAIN loaded \subseteq DOMAIN writes[k][3]
        /\ Processed \subseteq DOMAIN writes[k][3]
        /\ Ids(listing) \subseteq DOMAIN writes[k][3]

\* both stores written in a run that loaded a cache with entries and
\* processed a new file
C9_Witness ==
    /\ pc = "done"
    /\ writes = <<<<"local", Len(listing) + 1, cached_files>>, <<"repo", Len(listing) + 1, cached_files>>>>
    /\ loaded # EmptyMap
    /\ Processed # {}
    /\ DOMAIN localFile.text = DOMAIN loaded \cup Processed
    /\ repoCache = localFile

\* C10: a row without coordinate is in the cache, under its identifier, as
\* soon as it is in rows, and no marker carries its identifier; a file whose
\* loaded record has no coordinate is not downloaded at all in this run.
C10_NoCoordCachedNotMapped ==
    /\ \A k \in 1..Len(rows) :
          NoCoord(rows[k]) =>
              /\ rows[k].file_id \in DOMAIN cached_files
              /\ cached_files[rows[k].file_id] = rows[k]
              /\ \A m \in 1..Len(markers) : markers[m].file_id # rows[k].file_id
    /\ \A id \in DOMAIN loaded : NoCoord(loaded[id]) => Downloads(id) = 0

\* a later run serves a file without coordinate from the cache next to a
\* file that gets its marker
C10_Witness ==
    /\ run > 1
    /\ pc = "done"
    /\ Len(markers) > 0
    /\ \E k \in 1..Len(rows) :
          /\ NoCoord(rows[k])
          /\ rows[k].file_id \in DOMAIN loaded
          /\ Drive[rows[k].file_id].bytes.fmt = "heic"

MarkersOf(id) == {m \in 1..Len(markers) : markers[m].file_id = id}

RowsOf(id) == {k \in 1..Len(rows) : rows[k].file_id = id}

\* C11: a decodable JPEG file (bytes and declared MIME type both JPEG) with
\* complete valid GPS tags yields one marker for each of its rows, its bytes
\* being decoded by the generic raster path when the artifacts are made.
C11_JpegGetsMarker ==
    pc = "done" =>
        \A k \in 1..Len(rows) :
            LET f == Drive[rows[k].file_id] IN
            (/\ f.bytes.fmt = "jpeg" /\ ~IsHeicMime(f.mimeType)
             /\ pil_open_safe(f.bytes, f.mimeType).ok
             /\ ~ParsingFails(f.bytes, f.mimeType)
             /\ Truthy(rows[k].latitude) /\ Truthy(rows[k].longitude))
                => Cardinality(MarkersOf(rows[k].file_id)) = Cardinality(RowsOf(rows[k].file_id))

\* icon and preview can both be generated from the bytes of this file
ArtifactsGenerated(id) ==
    ArtifactGate(heic_to_base64_circle(Drive[id].bytes, IconSize),
                 heic_to_base64_popup(Drive[id].bytes, PopupWidth))

\* C17: in a finished run a row has a marker if and only if its latitude and
\* longitude are both present, zero included, and icon and preview were
\* both generated.
C17_MarkerIffCoordinatesAndArtifacts ==
    pc = "done" =>
        \A k \in 1..Len(rows) :
            (MarkersOf(rows[k].file_id) # {})
                <=> (/\ Present(rows[k].latitude) /\ Present(rows[k].longitude)
                     /\ ArtifactsGenerated(rows[k].file_id))

\* listing positions the collection loop has dealt with
Visited == IF i = 0 THEN 0 ELSE i - 1

\* C12: rows holds exactly one record per visited listing position, in the
\* order of the listing: the record at position k is the record of the file
\* listed at position k, served from the cache or newly processed alike.
C12_RowsInListingOrder ==
    /\ Len(rows) = Visited
    /\ pc \in {"render", "publish_cache", "done"} => Len(rows) = Len(listing)
    /\ \A k \in 1..Len(rows) :
          /\ rows[k].file_id = listing[k].id
          /\ rows[k] = cached_files[listing[k].id]

\* a finished run whose listing has a cache hit in front of a new file
C12_Witness ==
    /\ pc = "done"
    /\ Len(listing) = 2
    /\ listing[1].id \in DOMAIN loaded
    /\ listing[2].id \notin DOMAIN loaded
    /\ listing[1].id # listing[2].id
    /\ rows = <<loaded[listing[1].id], cached_files[listing[2].id]>>

\* C13: two runs that both start from an empty cache and list the same
\* files in two orders end their collection loops with the same cache: the
\* same keys, the same record under each key.
C13_CacheSurvivesReordering ==
    (/\ prev.ended = "done"
     /\ prev.loaded = EmptyMap
     /\ loaded = EmptyMap
     /\ pc \in {"render", "publish_cache", "done"}
     /\ listing \in Reorderings(prev.listing))
        => /\ DOMAIN cached_files = DOMAIN prev.cache
           /\ \A id \in DOMAIN cached_files : cached_files[id] = prev.cache[id]

\* the second run lists two different files in the other order and ends
\* with the rows in the other order too
C13_Witness ==
    /\ prev.ended = "done"
    /\ prev.loaded = EmptyMap
    /\ loaded = EmptyMap
    /\ pc = "done"
    /\ Len(listing) = 2 /\ Len(prev.listing) = 2 /\ Len(prev.rows) = 2
    /\ listing[1].id # listing[2].id
    /\ listing = <<prev.listing[2], prev.listing[1]>>
    /\ rows = <<prev.rows[2], prev.rows[1]>>
    /\ Cardinality(DOMAIN cached_files) = 2

\* load_cache found neither the local file nor a file it could fetch
LoadedNothing == pc # "load" /\ log[1] = <<"load", "empty">>

\* C15: with no local cache file and no cache file in the repository,
\* load_cache takes its fallback; whenever it does (the file missing or the
\* request failing) it returns the empty map, the run is not ended by it, and
\* every file the collection loop visits is downloaded and processed as new.
C15_LoadToleratesMissingStore ==
    /\ (pc \in {"list", "collect"} /\ ~localFile.exists /\ ~repoCache.exists) => LoadedNothing
    /\ LoadedNothing =>
          /\ loaded = EmptyMap
          /\ abortCause # "load"
          /\ \A k \in 1..Visited : gets[listing[k].id].collect = 1
          /\ \A k \in 1..Len(rows) : rows[k].file_id \in Processed

\* a later run in a fresh checkout whose request to the repository fails,
\* finished with both listed files processed as new
C15_Witness ==
    /\ LoadedNothing
    /\ run > 1 /\ repoCache.exists /\ prev.ended = "done"
    /\ pc = "done"
    /\ Len(rows) = 2
    /\ Processed = {rows[1].file_id, rows[2].file_id}
    /\ Cardinality(Processed) = 2

Puts(id) == {k \in 1..Len(log) : log[k] = <<"put", id>>}

\* C16: every identifier of the loaded cache keeps its loaded record, in the
\* dict and in every map written to the local file or the repository (read
\* back from there as well), listed in this run or not; no identifier is
\* assigned a record twice in a run.
C16_RecordsWriteOnce ==
    /\ \A id \in DOMAIN loaded :
          /\ id \in DOMAIN cached_files /\ cached_files[id] = loaded[id]
          /\ \A k \in 1..Len(writes) :
                id \in DOMAIN writes[k][3] /\ writes[k][3][id] = loaded[id]
    /\ Len(writes) >= 1 => json_load(localFile.text) = writes[1][3]
    /\ Len(writes) >= 2 => json_load(repoCache.text) = writes[2][3]
    /\ \A id \in FileIds : Cardinality(Puts(id)) <= 1 /\ (id \in DOMAIN loaded => Puts(id) = {})

\* a finished run that loaded one record of a file still listed and one of
\* a file no longer listed, both written back
C16_Witness ==
    /\ pc = "done"
    /\ Len(writes) = 2
    /\ DOMAIN loaded \ Ids(listing) # {}
    /\ DOMAIN loaded \cap Ids(listing) # {}
    /\ \E id \in DOMAIN loaded : Present(loaded[id].latitude)
    /\ json_load(repoCache.text) = loaded

Longer(size) == IF size[1] >= size[2] THEN size[1] ELSE size[2]

Shorter(size) == IF size[1] >= size[2] THEN size[2] ELSE size[1]

\* C14: for a source picture of any width and height >= 1 the popup is made
\* without an error, its longer side is exactly 200 and its shorter side at
\* least 1.
C14_PreviewLongSide200 ==
    xPc = "popup_returned" =>
        /\ ~xUri.raised
        /\ xUri.some
        /\ Longer(xUri.size) = PopupWidth
        /\ Shorter(xUri.size) >= 1

====
